---- MODULE Spec2Model ----
(***************************************************************************)
(* A model of iprange-rs: the conversion between an inclusive              *)
(* (network, broadcast) address pair and a CIDR block, and the parsing of  *)
(* the address/prefix notation, for IPv4 (32 bits) and IPv6 (128 bits).    *)
(*                                                                         *)
(* An unsigned integer of width w is the set of the indices, in 0..w-1,    *)
(* of its one bits (0 is the least significant bit, the index of           *)
(* `1 << i`): TLC's integers are narrower than u32 and u128.  An Ipv4Addr  *)
(* is the tuple of its four octets, an Ipv6Addr the tuple of its eight     *)
(* segments, a text the tuple of its characters.                           *)
(***************************************************************************)
EXTENDS Integers, Sequences, FiniteSets, TLC

VARIABLES pc, op, args, result, calls, split

vars == <<pc, op, args, result, calls, split>>

----------------------------------------------------------------------------
(* Widths and bounds *)

\* width of u32, the integer of an IPv4 address
U32_BITS == 32

\* width of u128, the integer of an IPv6 address
U128_BITS == 128

\* largest value of a u8 (the type of cidr) plus one
U8_RANGE == 256

\* the generated addresses carry, in their leading bits, the periodic
\* patterns of period 0 (all zero), 1 (all one), .. MaxPeriod
MaxPeriod == 2

\* the prefix lengths written in the generated texts are 0..MaxPrefixText
MaxPrefixText == 260

----------------------------------------------------------------------------
(* Fixed-width integers: the set of the indices of the one bits *)

Pow2(n) == 2 ^ n

\* all indices of width w; as an integer, the all-ones value
Ones(w) == 0..(w - 1)

\* the integer of width w of a natural number x below 2^16
BitsOf(x, w) == {i \in 0..15 : i < w /\ (x \div Pow2(i)) % 2 = 1}

Zero == {}

\* the integer 1
One == {0}

BitXor(a, b) == (a \ b) \cup (b \ a)

BitAnd(a, b) == a \cap b

BitOr(a, b) == a \cup b

\* !a at width w
BitNot(a, w) == Ones(w) \ a

\* a << s at width w: the bits shifted out at the top are lost
Shl(a, s, w) == {i + s : i \in {j \in a : j + s < w}}

SetMax(S) == CHOOSE x \in S : \A y \in S : y <= x

SetMin(S) == CHOOSE x \in S : \A y \in S : x <= y

\* uN::leading_zeros: the number of zero bits above the highest one bit
leading_zeros(a, w) == IF a = {} THEN w ELSE w - 1 - SetMax(a)

\* uN::trailing_zeros: the number of zero bits below the lowest one bit
trailing_zeros(a, w) == IF a = {} THEN w ELSE SetMin(a)

\* a cast to seven bits
as_u7(x) == x % 128

\* `x as u8`
as_u8(x) == x % U8_RANGE

----------------------------------------------------------------------------
(* bits.rs *)

RECURSIVE ipv4_fold(_, _, _)
\* the fold of ipv4_to_u32 over the reversed octets: count is the index in
\* the reversed sequence, octet ip[4 - count] is shifted left by count * 8
ipv4_fold(ip, count, acc) ==
    IF count = Len(ip) THEN acc
    ELSE ipv4_fold(ip, count + 1,
                   BitOr(acc, Shl(BitsOf(ip[Len(ip) - count], U32_BITS), count * 8, U32_BITS)))

RECURSIVE ipv4_fold_forward(_, _, _)
\* the fold without `.rev()`: the first octet is shifted by 0
ipv4_fold_forward(ip, count, acc) ==
    IF count = Len(ip) THEN acc
    ELSE ipv4_fold_forward(ip, count + 1,
                           BitOr(acc, Shl(BitsOf(ip[count + 1], U32_BITS), count * 8, U32_BITS)))

ipv4_to_u32_forward(ip) == ipv4_fold_forward(ip, 0, Zero)

ipv4_to_u32(ip) == ipv4_fold(ip, 0, Zero)

RECURSIVE ipv6_fold(_, _, _)
ipv6_fold(ip, count, acc) ==
    IF count = Len(ip) THEN acc
    ELSE ipv6_fold(ip, count + 1,
                   BitOr(acc, Shl(BitsOf(ip[Len(ip) - count], U128_BITS), count * 16, U128_BITS)))

ipv6_to_u128(ip) == ipv6_fold(ip, 0, Zero)

\* the leading zeros of a | b in place of a ^ b
number_of_common_prefix_bits_u32_or(a, b) == as_u8(leading_zeros(BitOr(a, b), U32_BITS))

number_of_common_prefix_bits_u32(a, b) == as_u8(leading_zeros(BitXor(a, b), U32_BITS))

number_of_common_prefix_bits_u128(a, b) == as_u8(leading_zeros(BitXor(a, b), U128_BITS))

number_of_common_postfix_bits_u32(a, b) == as_u8(trailing_zeros(BitXor(a, b), U32_BITS))

number_of_common_postfix_bits_u128(a, b) == as_u8(trailing_zeros(BitXor(a, b), U128_BITS))

number_of_diff_postfix_bits_u32(a, b) == as_u8(trailing_zeros(BitNot(BitXor(a, b), U32_BITS), U32_BITS))

number_of_diff_postfix_bits_u128(a, b) == as_u8(trailing_zeros(BitNot(BitXor(a, b), U128_BITS), U128_BITS))

\* `for i in lo..hi { mask |= 1 << i; }` at width w: mask with `1 << i`
\* ORed in for every i of the range
mask_loop(mask, w, i, hi) == BitOr(mask, UNION {Shl(One, j, w) : j \in i..(hi - 1)})

\* `assert!(leading_zeros <= 32)`: TRUE when the assertion holds
mask_assert_u32(n) == n <= 32

\* the assertion of the u128 masks off by one
mask_assert_u128_loose(n) == n <= 129

\* `assert!(leading_zeros <= 128)`
mask_assert_u128(n) == n <= 128

\* prefix_mask_u32 with the range ending one bit early: `..31`
prefix_mask_u32_short(leading) == mask_loop(Zero, U32_BITS, 32 - leading, 31)

\* the value of prefix_mask_u32 where its assertion holds
prefix_mask_u32(leading) == mask_loop(Zero, U32_BITS, 32 - leading, 32)

prefix_mask_u128(leading) == mask_loop(Zero, U128_BITS, 128 - leading, 128)

\* postfix_mask_u32 with the range starting one bit late: `1..`
postfix_mask_u32_from_one(trailing) == mask_loop(Zero, U32_BITS, 1, trailing)

postfix_mask_u32(trailing) == mask_loop(Zero, U32_BITS, 0, trailing)

postfix_mask_u128(trailing) == mask_loop(Zero, U128_BITS, 0, trailing)

----------------------------------------------------------------------------
(* Texts: a &str is the tuple of its characters (all of one byte here)     *)

None == [some |-> FALSE, v |-> 0]

Some(x) == [some |-> TRUE, v |-> x]

Positions(s, c) == {i \in 1..Len(s) : s[i] = c}

\* str::find(c): the byte index, from 0, of the first c
str_find(s, c) == IF Positions(s, c) = {} THEN None ELSE Some(SetMin(Positions(s, c)) - 1)

\* str::rfind(c): the byte index, from 0, of the last c
str_rfind(s, c) == IF Positions(s, c) = {} THEN None ELSE Some(SetMax(Positions(s, c)) - 1)

\* str::split_at(mid), and the slices &s[..mid] and &s[mid..]
split_at(s, mid) == <<SubSeq(s, 1, mid), SubSeq(s, mid + 1, Len(s))>>

DecDigits == <<"0", "1", "2", "3", "4", "5", "6", "7", "8", "9">>

HexLower == DecDigits \o <<"a", "b", "c", "d", "e", "f">>

HexUpper == DecDigits \o <<"A", "B", "C", "D", "E", "F">>

IsDigit(ch) == \E i \in 1..Len(DecDigits) : DecDigits[i] = ch

IsHexDigit(ch) == \E i \in 1..Len(HexLower) : HexLower[i] = ch \/ HexUpper[i] = ch

HexVal(ch) == (CHOOSE i \in 1..Len(HexLower) : HexLower[i] = ch \/ HexUpper[i] = ch) - 1

RECURSIVE RadixVal(_, _)
\* the value of a sequence of digits in the radix
RadixVal(ds, radix) ==
    IF ds = <<>> THEN 0
    ELSE RadixVal(SubSeq(ds, 1, Len(ds) - 1), radix) * radix + HexVal(ds[Len(ds)])

RECURSIVE SplitOn(_, _)
\* the pieces of s between the occurrences of c
SplitOn(s, c) ==
    IF Positions(s, c) = {} THEN <<s>>
    ELSE LET i == SetMin(Positions(s, c))
         IN  <<SubSeq(s, 1, i - 1)>> \o SplitOn(SubSeq(s, i + 1, Len(s)), c)

\* <u8 as FromStr>::from_str: an optional '+', then one or more decimal
\* digits whose value fits a u8
u8_from_str(s) ==
    LET ds == IF Len(s) > 0 /\ s[1] = "+" THEN Tail(s) ELSE s
    IN  IF ds = <<>> \/ Len(ds) > 9 THEN None
        ELSE IF \E i \in 1..Len(ds) : ~IsDigit(ds[i]) THEN None
        ELSE IF RadixVal(ds, 10) >= U8_RANGE THEN None
        ELSE Some(RadixVal(ds, 10))

\* one decimal octet of a dotted quad: one to three digits, no leading zero,
\* at most 255
OctetOk(p) ==
    /\ Len(p) \in 1..3
    /\ \A i \in 1..Len(p) : IsDigit(p[i])
    /\ (Len(p) > 1 => p[1] # "0")
    /\ RadixVal(p, 10) < U8_RANGE

DottedQuadOk(s) ==
    LET parts == SplitOn(s, ".")
    IN  Len(parts) = 4 /\ \A i \in 1..4 : OctetOk(parts[i])

\* <Ipv4Addr as FromStr>::from_str: four decimal octets separated by '.'
Ipv4Addr_from_str(s) ==
    IF DottedQuadOk(s)
    THEN Some([i \in 1..4 |-> RadixVal(SplitOn(s, ".")[i], 10)])
    ELSE None

\* one group of an IPv6 literal: one to four hexadecimal digits
GroupOk(p) == Len(p) \in 1..4 /\ \A i \in 1..Len(p) : IsHexDigit(p[i])

\* the pieces of one side of an IPv6 literal: none for the empty text
V6Pieces(s) == IF s = <<>> THEN <<>> ELSE SplitOn(s, ":")

\* a side of an IPv6 literal is well formed: hexadecimal groups, the last of
\* which may be a dotted quad when a quad is allowed there
V6SideOk(ps, quad) ==
    \A i \in 1..Len(ps) :
        GroupOk(ps[i]) \/ (quad /\ i = Len(ps) /\ DottedQuadOk(ps[i]))

\* the 16-bit segments a well-formed side stands for
V6SideSegs(ps) ==
    IF ps = <<>> THEN <<>>
    ELSE LET last == ps[Len(ps)]
             front == [i \in 1..(Len(ps) - 1) |-> RadixVal(ps[i], 16)]
         IN  IF GroupOk(last) THEN front \o <<RadixVal(last, 16)>>
             ELSE LET q == Ipv4Addr_from_str(last).v
                  IN  front \o <<q[1] * 256 + q[2], q[3] * 256 + q[4]>>

\* the index of the first "::" of s, or 0
DoubleColon(s) ==
    LET P == {i \in 1..(Len(s) - 1) : s[i] = ":" /\ s[i + 1] = ":"}
    IN  IF P = {} THEN 0 ELSE SetMin(P)

\* <Ipv6Addr as FromStr>::from_str: eight groups separated by ':', or fewer
\* around one "::" that stands for the zero groups left out; the last two
\* groups may be written as a dotted quad
Ipv6Addr_from_str(s) ==
    LET dc == DoubleColon(s)
    IN  IF dc = 0
        THEN LET ps == V6Pieces(s)
             IN  IF ps # <<>> /\ V6SideOk(ps, TRUE) /\ Len(V6SideSegs(ps)) = 8
                 THEN Some(V6SideSegs(ps))
                 ELSE None
        ELSE LET head == V6Pieces(SubSeq(s, 1, dc - 1))
                 tail == V6Pieces(SubSeq(s, dc + 2, Len(s)))
             IN  IF V6SideOk(head, FALSE) /\ V6SideOk(tail, TRUE)
                    /\ Len(V6SideSegs(head)) + Len(V6SideSegs(tail)) <= 7
                 THEN Some(V6SideSegs(head)
                           \o [i \in 1..(8 - Len(V6SideSegs(head)) - Len(V6SideSegs(tail))) |-> 0]
                           \o V6SideSegs(tail))
                 ELSE None

RECURSIVE u8_fmt(_)
\* <u8 as Display>::fmt: the decimal digits, no leading zero
u8_fmt(n) == IF n < 10 THEN <<DecDigits[n + 1]>> ELSE u8_fmt(n \div 10) \o <<DecDigits[(n % 10) + 1]>>

\* <Ipv4Addr as Display>::fmt: the four octets in decimal, separated by '.'
Ipv4Addr_fmt(ip) ==
    u8_fmt(ip[1]) \o <<".">> \o u8_fmt(ip[2]) \o <<".">> \o u8_fmt(ip[3]) \o <<".">> \o u8_fmt(ip[4])

RECURSIVE hex_fmt(_)
\* `{:x}` of a segment: the hexadecimal digits in lower case, no leading zero
hex_fmt(n) == IF n < 16 THEN <<HexLower[n + 1]>> ELSE hex_fmt(n \div 16) \o <<HexLower[(n % 16) + 1]>>

RECURSIVE JoinHex(_)
\* the segments in hexadecimal, separated by ':'
JoinHex(segs) ==
    IF segs = <<>> THEN <<>>
    ELSE IF Len(segs) = 1 THEN hex_fmt(segs[1])
    ELSE hex_fmt(segs[1]) \o <<":">> \o JoinHex(Tail(segs))

\* the length of the run of zero segments that starts at segment i
ZeroRun(ip, i) == Cardinality({l \in 1..(Len(ip) - i + 1) : \A j \in i..(i + l - 1) : ip[j] = 0})

\* the length of the longest run of zero segments, and where the first run
\* of that length starts
LongestZeroRun(ip) == SetMax({ZeroRun(ip, i) : i \in 1..Len(ip)})

LongestZeroRunAt(ip) == SetMin({i \in 1..Len(ip) : ZeroRun(ip, i) = LongestZeroRun(ip)})

\* the last two segments written as a dotted quad
QuadOfSegs(g, h) == Ipv4Addr_fmt(<<g \div 256, g % 256, h \div 256, h % 256>>)

\* <Ipv6Addr as Display>::fmt: "::" and "::1"; an IPv4-mapped address with
\* a dotted quad, and an IPv4-compatible one too where the standard library
\* of the build still does that (compat); else the segments in hexadecimal
\* with the first longest run of two or more zero segments written "::"
Ipv6Addr_fmt(ip, compat) ==
    IF ip = <<0, 0, 0, 0, 0, 0, 0, 0>> THEN <<":", ":">>
    ELSE IF ip = <<0, 0, 0, 0, 0, 0, 0, 1>> THEN <<":", ":", "1">>
    ELSE IF compat /\ SubSeq(ip, 1, 6) = <<0, 0, 0, 0, 0, 0>>
    THEN <<":", ":">> \o QuadOfSegs(ip[7], ip[8])
    ELSE IF SubSeq(ip, 1, 6) = <<0, 0, 0, 0, 0, 65535>>
    THEN <<":", ":", "f", "f", "f", "f", ":">> \o QuadOfSegs(ip[7], ip[8])
    ELSE IF LongestZeroRun(ip) > 1
    THEN JoinHex(SubSeq(ip, 1, LongestZeroRunAt(ip) - 1))
             \o <<":", ":">>
             \o JoinHex(SubSeq(ip, LongestZeroRunAt(ip) + LongestZeroRun(ip), Len(ip)))
    ELSE JoinHex(ip)

----------------------------------------------------------------------------
(* Results: Result<T, IpAddrRangeError>, or the abort of a failed          *)
(* assertion or of unimplemented!()                                        *)

NoBlock == [network_address |-> <<>>, cidr |-> 0]

Ok(v) == [kind |-> "Ok", value |-> v, err |-> "", arg |-> 0]

Err(e) == [kind |-> "Err", value |-> NoBlock, err |-> e, arg |-> 0]

ErrWith(e, a) == [kind |-> "Err", value |-> NoBlock, err |-> e, arg |-> a]

Abort(why) == [kind |-> "Abort", value |-> NoBlock, err |-> why, arg |-> 0]

\* impl From<AddrParseError> for IpAddrRangeError
From_AddrParseError == "ParseError"

\* impl From<ParseIntError> for IpAddrRangeError
From_ParseIntError == "ParseError"

----------------------------------------------------------------------------
(* bits.rs: the mask functions as a caller sees them, value or abort; the  *)
(* integer returned is listed bit by bit                                   *)

\* the loop `for i in lo..hi { mask |= 1 << i; }` at width w leaves the
\* arithmetic of the width: lo, a difference of u8, is below zero, or some
\* shift is by w or more; a build with overflow checks aborts there
range_overflows(lo, hi, w) == lo < 0 \/ (lo < hi /\ hi > w)

\* prefix_mask_u32(leading_zeros)
call_prefix_mask_u32(leading) ==
    IF ~mask_assert_u32(leading) THEN Abort("assertion failed: leading_zeros <= 32")
    ELSE IF range_overflows(32 - leading, 32, U32_BITS) THEN Abort("arithmetic overflow")
    ELSE Ok({i \in Ones(U32_BITS) : i \in prefix_mask_u32(leading)})

\* prefix_mask_u128(leading_zeros)
call_prefix_mask_u128(leading) ==
    IF ~mask_assert_u128(leading) THEN Abort("assertion failed: leading_zeros <= 128")
    ELSE IF range_overflows(128 - leading, 128, U128_BITS) THEN Abort("arithmetic overflow")
    ELSE Ok({i \in Ones(U128_BITS) : i \in prefix_mask_u128(leading)})

\* postfix_mask_u32(trailing_zeros)
call_postfix_mask_u32(trailing) ==
    IF ~mask_assert_u32(trailing) THEN Abort("assertion failed: trailing_zeros <= 32")
    ELSE IF range_overflows(0, trailing, U32_BITS) THEN Abort("arithmetic overflow")
    ELSE Ok({i \in Ones(U32_BITS) : i \in postfix_mask_u32(trailing)})

\* postfix_mask_u128(trailing_zeros)
call_postfix_mask_u128(trailing) ==
    IF ~mask_assert_u128(trailing) THEN Abort("assertion failed: trailing_zeros <= 128")
    ELSE IF range_overflows(0, trailing, U128_BITS) THEN Abort("arithmetic overflow")
    ELSE Ok({i \in Ones(U128_BITS) : i \in postfix_mask_u128(trailing)})

----------------------------------------------------------------------------
(* ipv4.rs *)

\* new without its assertion
IpAddrRangeV4_new_unasserted(network_address, cidr) ==
    Ok([network_address |-> network_address, cidr |-> cidr])

\* IpAddrRangeV4::new
IpAddrRangeV4_new(network_address, cidr) ==
    IF ~(cidr <= 32) THEN Abort("assertion failed: cidr <= 32")
    ELSE Ok([network_address |-> network_address, cidr |-> cidr])

\* the network check left out
network_check_skipped(network, host_mask) == FALSE

\* `(network & host_mask) != 0`: the network address has a host bit set
network_check_fails(network, host_mask) == BitAnd(network, host_mask) # Zero

\* the broadcast check only asks for an address above the network address
broadcast_check_loose(broadcast, network, host_mask) == BitAnd(broadcast, host_mask) = Zero

\* `broadcast != (network | host_mask)`: the broadcast address is not the
\* network address with every host bit set
broadcast_check_fails(broadcast, network, host_mask) == broadcast # BitOr(network, host_mask)

\* the derivation with an error of its own for the network check
IpAddrRangeV4_derive_two_errors(network_address, broadcast_address) ==
    LET network == ipv4_to_u32(network_address)
        broadcast == ipv4_to_u32(broadcast_address)
        cidr == number_of_common_prefix_bits_u32(network, broadcast)
    IN  IF ~mask_assert_u32(cidr)
        THEN Abort("assertion failed: leading_zeros <= 32")
        ELSE LET net_mask == prefix_mask_u32(cidr)
                 host_mask == BitNot(net_mask, U32_BITS)
             IN  IF network_check_fails(network, host_mask)
                 THEN Err("ParseError")
                 ELSE IF broadcast_check_fails(broadcast, network, host_mask)
                 THEN Err("InvalidNetworkAddress")
                 ELSE Ok([network_address |-> network_address, cidr |-> cidr])

\* IpAddrRangeV4::from_range after the equal-address return: the derivation
IpAddrRangeV4_derive(network_address, broadcast_address) ==
    LET network == ipv4_to_u32(network_address)
        broadcast == ipv4_to_u32(broadcast_address)
        cidr == number_of_common_prefix_bits_u32(network, broadcast)
    IN  IF ~mask_assert_u32(cidr)
        THEN Abort("assertion failed: leading_zeros <= 32")
        ELSE LET net_mask == prefix_mask_u32(cidr)
                 host_mask == BitNot(net_mask, U32_BITS)
             IN  IF network_check_fails(network, host_mask)
                 THEN Err("InvalidNetworkAddress")
                 ELSE IF broadcast_check_fails(broadcast, network, host_mask)
                 THEN Err("InvalidNetworkAddress")
                 ELSE Ok([network_address |-> network_address, cidr |-> cidr])

\* from_range with the single-address prefix of the other family
IpAddrRangeV4_from_range_128(network_address, broadcast_address) ==
    IF network_address = broadcast_address
    THEN Ok([network_address |-> network_address, cidr |-> 128])
    ELSE IpAddrRangeV4_derive(network_address, broadcast_address)

\* IpAddrRangeV4::from_range
IpAddrRangeV4_from_range(network_address, broadcast_address) ==
    IF network_address = broadcast_address
    THEN Ok([network_address |-> network_address, cidr |-> 32])
    ELSE IpAddrRangeV4_derive(network_address, broadcast_address)

\* a display that writes the prefix in hexadecimal
IpAddrRangeV4_fmt_hex(range) == Ipv4Addr_fmt(range.network_address) \o <<"/">> \o hex_fmt(range.cidr)

\* <IpAddrRangeV4 as Display>::fmt: "{}/{}" of the address and the prefix
IpAddrRangeV4_fmt(range) == Ipv4Addr_fmt(range.network_address) \o <<"/">> \o u8_fmt(range.cidr)

\* what a parser hands back: its result, the standard parsers it ran, and
\* the (address_str, mask_str) it cut the text into, if it got that far
Parsed(r, ran, cut) == [result |-> r, calls |-> ran, split |-> cut]

\* <IpAddrRangeV4 as FromStr>::from_str without the range check on cidr
IpAddrRangeV4_from_str_unchecked(s) ==
    LET split_point == str_find(s, "/")
    IN  IF ~split_point.some THEN Parsed(Err("ParseError"), {}, <<>>)
        ELSE LET address_str == split_at(s, split_point.v)[1]
                 mask_str == split_at(s, split_point.v + 1)[2]
                 cut == <<address_str, mask_str>>
                 network_address == Ipv4Addr_from_str(address_str)
                 cidr == u8_from_str(mask_str)
             IN  IF ~network_address.some
                 THEN Parsed(Err(From_AddrParseError), {"Ipv4Addr::from_str"}, cut)
                 ELSE IF ~cidr.some
                 THEN Parsed(Err(From_ParseIntError), {"Ipv4Addr::from_str", "u8::from_str"}, cut)
                 ELSE Parsed(IpAddrRangeV4_new(network_address.v, cidr.v),
                             {"Ipv4Addr::from_str", "u8::from_str"}, cut)

\* <IpAddrRangeV4 as FromStr>::from_str
IpAddrRangeV4_from_str(s) ==
    LET split_point == str_find(s, "/")
    IN  IF ~split_point.some THEN Parsed(Err("ParseError"), {}, <<>>)
        ELSE LET address_str == split_at(s, split_point.v)[1]
                 mask_str == split_at(s, split_point.v + 1)[2]
                 cut == <<address_str, mask_str>>
                 network_address == Ipv4Addr_from_str(address_str)
                 cidr == u8_from_str(mask_str)
             IN  IF ~network_address.some
                 THEN Parsed(Err(From_AddrParseError), {"Ipv4Addr::from_str"}, cut)
                 ELSE IF ~cidr.some
                 THEN Parsed(Err(From_ParseIntError), {"Ipv4Addr::from_str", "u8::from_str"}, cut)
                 ELSE IF cidr.v > 32
                 THEN Parsed(Err("ParseError"), {"Ipv4Addr::from_str", "u8::from_str"}, cut)
                 ELSE Parsed(IpAddrRangeV4_new(network_address.v, cidr.v),
                             {"Ipv4Addr::from_str", "u8::from_str"}, cut)

----------------------------------------------------------------------------
(* ipv6.rs *)

\* new whose assertion lets one prefix above the width through
IpAddrRangeV6_new_loose(network_address, cidr) ==
    IF ~(cidr <= 129) THEN Abort("assertion failed: cidr <= 128")
    ELSE Ok([network_address |-> network_address, cidr |-> cidr])

\* IpAddrRangeV6::new
IpAddrRangeV6_new(network_address, cidr) ==
    IF ~(cidr <= 128) THEN Abort("assertion failed: cidr <= 128")
    ELSE Ok([network_address |-> network_address, cidr |-> cidr])

\* IpAddrRangeV6::from_range after the equal-address return: the derivation
IpAddrRangeV6_derive(network_address, broadcast_address) ==
    LET network == ipv6_to_u128(network_address)
        broadcast == ipv6_to_u128(broadcast_address)
        cidr == number_of_common_prefix_bits_u128(network, broadcast)
    IN  IF ~mask_assert_u128(cidr)
        THEN Abort("assertion failed: leading_zeros <= 128")
        ELSE LET net_mask == prefix_mask_u128(cidr)
                 host_mask == BitNot(net_mask, U128_BITS)
             IN  IF network_check_fails(network, host_mask)
                 THEN Err("InvalidNetworkAddress")
                 ELSE IF broadcast_check_fails(broadcast, network, host_mask)
                 THEN Err("InvalidNetworkAddress")
                 ELSE Ok([network_address |-> network_address, cidr |-> cidr])

\* IpAddrRangeV6::from_range
IpAddrRangeV6_from_range(network_address, broadcast_address) ==
    IF network_address = broadcast_address
    THEN Ok([network_address |-> network_address, cidr |-> 128])
    ELSE IpAddrRangeV6_derive(network_address, broadcast_address)

\* <IpAddrRangeV6 as Display>::fmt: "{}/{}" of the address and the prefix
IpAddrRangeV6_fmt(range, compat) ==
    Ipv6Addr_fmt(range.network_address, compat) \o <<"/">> \o u8_fmt(range.cidr)

\* from_str that clears the last segment of the address of a block whose
\* prefix leaves that segment to the host
IpAddrRangeV6_from_str_masked(s) ==
    LET split_point == str_rfind(s, "/")
    IN  IF ~split_point.some THEN Parsed(Err("IpAddrRangeParseError"), {}, <<>>)
        ELSE LET address_str == split_at(s, split_point.v)[1]
                 mask_str == split_at(s, split_point.v + 1)[2]
                 cut == <<address_str, mask_str>>
                 network_address == Ipv6Addr_from_str(address_str)
                 cidr == u8_from_str(mask_str)
             IN  IF Len(address_str) = 0 \/ Len(mask_str) = 0
                 THEN Parsed(Err("IpAddrRangeParseError"), {}, cut)
                 ELSE IF ~network_address.some
                 THEN Parsed(Err(From_AddrParseError), {"Ipv6Addr::from_str"}, cut)
                 ELSE IF ~cidr.some
                 THEN Parsed(Err(From_ParseIntError), {"Ipv6Addr::from_str", "u8::from_str"}, cut)
                 ELSE IF cidr.v > 128
                 THEN Parsed(ErrWith("InvalidCidr", cidr.v), {"Ipv6Addr::from_str", "u8::from_str"}, cut)
                 ELSE Parsed(IpAddrRangeV6_new(IF cidr.v <= 112
                                               THEN [network_address.v EXCEPT ![8] = 0]
                                               ELSE network_address.v, cidr.v),
                             {"Ipv6Addr::from_str", "u8::from_str"}, cut)

\* <IpAddrRangeV6 as FromStr>::from_str
IpAddrRangeV6_from_str(s) ==
    LET split_point == str_rfind(s, "/")
    IN  IF ~split_point.some THEN Parsed(Err("IpAddrRangeParseError"), {}, <<>>)
        ELSE LET address_str == split_at(s, split_point.v)[1]
                 mask_str == split_at(s, split_point.v + 1)[2]
                 cut == <<address_str, mask_str>>
                 network_address == Ipv6Addr_from_str(address_str)
                 cidr == u8_from_str(mask_str)
             IN  IF Len(address_str) = 0 \/ Len(mask_str) = 0
                 THEN Parsed(Err("IpAddrRangeParseError"), {}, cut)
                 ELSE IF ~network_address.some
                 THEN Parsed(Err(From_AddrParseError), {"Ipv6Addr::from_str"}, cut)
                 ELSE IF ~cidr.some
                 THEN Parsed(Err(From_ParseIntError), {"Ipv6Addr::from_str", "u8::from_str"}, cut)
                 ELSE IF cidr.v > 128
                 THEN Parsed(ErrWith("InvalidCidr", cidr.v), {"Ipv6Addr::from_str", "u8::from_str"}, cut)
                 ELSE Parsed(IpAddrRangeV6_new(network_address.v, cidr.v),
                             {"Ipv6Addr::from_str", "u8::from_str"}, cut)

----------------------------------------------------------------------------
(* iprange.rs *)

\* std::net::IpAddr: the family tag and the address
IpAddrV4(ip) == [family |-> "V4", ip |-> ip]

IpAddrV6(ip) == [family |-> "V6", ip |-> ip]

\* the `?` and the Ok(IpAddrRange::Vn(..)) around a family's result
WrapVariant(variant, r) ==
    IF r.kind = "Ok" THEN Ok([variant |-> variant, range |-> r.value]) ELSE r

\* from_range dispatching on the family of start alone
IpAddrRange_from_range_by_start(start, end) ==
    IF start.family = "V4"
    THEN [result |-> WrapVariant("V4", IpAddrRangeV4_from_range(start.ip, end.ip)),
          calls |-> {"IpAddrRangeV4::from_range"}]
    ELSE [result |-> WrapVariant("V6", IpAddrRangeV6_from_range(start.ip, end.ip)),
          calls |-> {"IpAddrRangeV6::from_range"}]

\* IpAddrRange::from_range: the result, and the family derivations it ran
IpAddrRange_from_range(start, end) ==
    IF start.family = "V4" /\ end.family = "V4"
    THEN [result |-> WrapVariant("V4", IpAddrRangeV4_from_range(start.ip, end.ip)),
          calls |-> {"IpAddrRangeV4::from_range"}]
    ELSE IF start.family = "V6" /\ end.family = "V6"
    THEN [result |-> WrapVariant("V6", IpAddrRangeV6_from_range(start.ip, end.ip)),
          calls |-> {"IpAddrRangeV6::from_range"}]
    ELSE [result |-> Err("MixedIpVersions"), calls |-> {}]

\* IpAddrRange::is_ipv4
is_ipv4(range) == range.variant = "V4"

\* is_ipv6 that looks at no variant
is_ipv6_any(range) == TRUE

\* IpAddrRange::is_ipv6
is_ipv6(range) == range.variant = "V6"

\* <IpAddrRange as Display>::fmt: the display of the block of the variant
IpAddrRange_fmt(range, compat) ==
    IF range.variant = "V4" THEN IpAddrRangeV4_fmt(range.range)
    ELSE IpAddrRangeV6_fmt(range.range, compat)

----------------------------------------------------------------------------
(* lib.rs: the crate root's own IpAddrRange, IpAddrRangeV4 and             *)
(* IpAddrRangeV6, whose blocks are (address, mask)                         *)

\* IpAddrRangeV4::new of lib.rs
lib_IpAddrRangeV4_new(address, mask) ==
    IF ~(mask <= 32) THEN Abort("assertion failed: mask <= 32")
    ELSE Ok([address |-> address, mask |-> mask])

\* IpAddrRangeV4::from_range of lib.rs
lib_IpAddrRangeV4_from_range(start, end) ==
    IF start = end THEN Ok([address |-> start, mask |-> 32])
    ELSE Abort("not yet implemented")

\* IpAddrRangeV6::new of lib.rs
lib_IpAddrRangeV6_new(address, mask) ==
    IF ~(mask <= 128) THEN Abort("assertion failed: mask <= 128")
    ELSE Ok([address |-> address, mask |-> mask])

\* IpAddrRangeV6::from_range of lib.rs
lib_IpAddrRangeV6_from_range(start, end) ==
    IF start = end THEN Ok([address |-> start, mask |-> 128])
    ELSE Abort("not yet implemented")

\* IpAddrRange::from_range of lib.rs
lib_IpAddrRange_from_range(start, end) ==
    IF start.family = "V4" /\ end.family = "V4"
    THEN [result |-> WrapVariant("V4", lib_IpAddrRangeV4_from_range(start.ip, end.ip)),
          calls |-> {"IpAddrRangeV4::from_range"}]
    ELSE IF start.family = "V6" /\ end.family = "V6"
    THEN [result |-> WrapVariant("V6", lib_IpAddrRangeV6_from_range(start.ip, end.ip)),
          calls |-> {"IpAddrRangeV6::from_range"}]
    ELSE [result |-> Err("MixedIpVersions"), calls |-> {}]

\* <IpAddrRangeV4 as FromStr>::from_str of lib.rs
lib_IpAddrRangeV4_from_str(s) ==
    LET split_point == str_find(s, "/")
    IN  IF ~split_point.some THEN Parsed(Err("ParseError"), {}, <<>>)
        ELSE LET address_str == split_at(s, split_point.v)[1]
                 mask_str == split_at(s, split_point.v + 1)[2]
                 cut == <<address_str, mask_str>>
                 address == Ipv4Addr_from_str(address_str)
                 mask == u8_from_str(mask_str)
             IN  IF ~address.some
                 THEN Parsed(Err("ParseError"), {"Ipv4Addr::from_str"}, cut)
                 ELSE IF ~mask.some
                 THEN Parsed(Err("ParseError"), {"Ipv4Addr::from_str", "u8::from_str"}, cut)
                 ELSE Parsed(lib_IpAddrRangeV4_new(address.v, mask.v),
                             {"Ipv4Addr::from_str", "u8::from_str"}, cut)

----------------------------------------------------------------------------
(* The callers' inputs *)

\* bit j (counted from the most significant bit, from 0) of the periodic
\* pattern h: all zero for h = 0, else a one at every h-th position
PatBit(h, j) == IF h > 0 /\ j % h = 0 THEN 1 ELSE 0

TailShapes == {"zeros", "ones", "one_zeros", "zero_ones", "zeros_one", "ones_zero"}

\* bit j (from the top, from 0) of a tail of m bits
TailBit(t, m, j) ==
    CASE t = "zeros" -> 0
      [] t = "ones" -> 1
      [] t = "one_zeros" -> IF j = 0 THEN 1 ELSE 0
      [] t = "zero_ones" -> IF j = 0 THEN 0 ELSE 1
      [] t = "zeros_one" -> IF j = m - 1 THEN 1 ELSE 0
      [] t = "ones_zero" -> IF j = m - 1 THEN 0 ELSE 1

\* the integer of width w whose top k bits follow pattern h and whose low
\* w - k bits have shape t
GenBits(w, k, h, t) ==
    {i \in 0..(w - 1) :
        1 = IF w - 1 - i < k THEN PatBit(h, w - 1 - i) ELSE TailBit(t, w - k, w - 1 - i - k)}

\* the value of the g-bit group number n (from the top, from 1) of v
Group(v, w, g, n) ==
    LET lo == w - n * g
        RECURSIVE Sum(_)
        Sum(b) == IF b = g THEN 0 ELSE (IF lo + b \in v THEN Pow2(b) ELSE 0) + Sum(b + 1)
    IN  Sum(0)

\* Ipv4Addr::new(a, b, c, d) and Ipv6Addr::new(a, .., h) of the generated bits
GenV4(k, h, t) == LET v == GenBits(U32_BITS, k, h, t) IN [n \in 1..4 |-> Group(v, U32_BITS, 8, n)]

GenV6(k, h, t) == LET v == GenBits(U128_BITS, k, h, t) IN [n \in 1..8 |-> Group(v, U128_BITS, 16, n)]

\* pairs of IPv4 addresses of which one boundary only is out of place:
\* 10.0.0.0 and 10.0.0.2, 0.0.0.1 and 0.0.0.3
BoundaryPairsV4 ==
    {<<IpAddrV4(<<10, 0, 0, 0>>), IpAddrV4(<<10, 0, 0, 2>>)>>,
     <<IpAddrV4(<<0, 0, 0, 1>>), IpAddrV4(<<0, 0, 0, 3>>)>>}

\* pairs of IPv4 addresses that agree on their top k bits
PairsV4 ==
    {<<IpAddrV4(GenV4(x[1], x[2], x[3])), IpAddrV4(GenV4(x[1], x[2], x[4]))>> :
        x \in (0..U32_BITS) \X (0..MaxPeriod) \X TailShapes \X TailShapes}
    \cup BoundaryPairsV4

PairsV6 ==
    {<<IpAddrV6(GenV6(x[1], x[2], x[3])), IpAddrV6(GenV6(x[1], x[2], x[4]))>> :
        x \in (0..U128_BITS) \X (0..MaxPeriod) \X TailShapes \X TailShapes}

\* a few addresses of each family, for the calls that mix the families
SomeV4 == {IpAddrV4(GenV4(k, h, "one_zeros")) : k \in {0, 8, 31}, h \in 0..MaxPeriod}

SomeV6 == {IpAddrV6(GenV6(k, h, "one_zeros")) : k \in {0, 64, 127}, h \in 0..MaxPeriod}

PairsMixed == (SomeV4 \X SomeV6) \cup (SomeV6 \X SomeV4)

\* the text of a natural number in decimal
RECURSIVE Dec(_)
Dec(n) == IF n < 10 THEN <<DecDigits[n + 1]>> ELSE Dec(n \div 10) \o <<DecDigits[(n % 10) + 1]>>

\* texts that are IPv4 addresses: 127.0.0.1 and the display of some addresses
ValidV4Texts == {Ipv4Addr_fmt(<<127, 0, 0, 1>>)} \cup {Ipv4Addr_fmt(a.ip) : a \in SomeV4}

\* texts that are IPv6 addresses
ValidV6Texts ==
    {<<":", ":">>,
     <<":", ":", "1">>,
     <<"2", "0", "0", "1", ":", ":">>,
     <<"1", ":", "2", ":", "3", ":", "4", ":", "5", ":", "6", ":", "7", ":", "8">>,
     <<":", ":", "f", "f", "f", "f", ":", "1", ".", "2", ".", "3", ".", "4">>,
     <<"f", "e", "8", "0", ":", ":", "1">>}

\* texts of IPv4 addresses with the address each one writes
KnownV4 ==
    {<<<<"1", "2", "7", ".", "0", ".", "0", ".", "1">>, <<127, 0, 0, 1>>>>}
        \cup {<<Ipv4Addr_fmt(a.ip), a.ip>> : a \in SomeV4}

\* texts of IPv6 addresses with the address each one writes
KnownV6 ==
    {<<<<":", ":">>, <<0, 0, 0, 0, 0, 0, 0, 0>>>>,
     <<<<":", ":", "1">>, <<0, 0, 0, 0, 0, 0, 0, 1>>>>,
     <<<<"2", "0", "0", "1", ":", ":">>, <<8193, 0, 0, 0, 0, 0, 0, 0>>>>,
     <<<<"1", ":", "2", ":", "3", ":", "4", ":", "5", ":", "6", ":", "7", ":", "8">>,
       <<1, 2, 3, 4, 5, 6, 7, 8>>>>,
     <<<<":", ":", "f", "f", "f", "f", ":", "1", ".", "2", ".", "3", ".", "4">>,
       <<0, 0, 0, 0, 0, 65535, 258, 772>>>>,
     <<<<"f", "e", "8", "0", ":", ":", "1">>, <<65152, 0, 0, 0, 0, 0, 0, 1>>>>}

Known(f) == IF f = "V4" THEN KnownV4 ELSE KnownV6

\* the addresses of the blocks that are displayed and parsed back
DisplayedV4 ==
    {k[2] : k \in KnownV4}
        \cup {GenV4(k, h, t) : k \in {0, 16, 31}, h \in 0..MaxPeriod, t \in TailShapes}

DisplayedV6 ==
    {k[2] : k \in KnownV6}
        \cup {<<0, 0, 0, 0, 0, 0, 0, 36>>, <<0, 0, 0, 0, 0, 0, 258, 772>>}
        \cup {GenV6(k, h, t) : k \in {0, 64, 127}, h \in 0..MaxPeriod, t \in TailShapes}

\* texts that are an address of neither family
JunkTexts ==
    {<<>>,
     <<"a", "b", "s">>,
     <<"2", "4">>,
     <<"2", "5", "6", ".", "0", ".", "0", ".", "1">>,
     <<"1", ".", "2", ".", "3">>,
     <<"1", ".", ".", "3", ".", "4">>,
     <<"1", ".", "2", ".", "3", ".", "4", ".", "5">>,
     <<":", ":", ":", "1">>,
     <<"1", ":", "2", ":", "3">>,
     <<"1", "2", "3", "4", "5", ":", ":">>,
     <<"1", ":", ":", "2", ":", ":", "3">>}

AddrTexts == ValidV4Texts \cup ValidV6Texts \cup JunkTexts

\* the decimal texts of the prefix lengths
NumberTexts == {Dec(n) : n \in 0..MaxPrefixText}

\* texts that are not the decimal text of a prefix length
OddPrefixTexts ==
    {<<>>,
     <<"+", "8">>,
     <<"-", "1">>,
     <<"x">>,
     <<"2", "x">>,
     <<"0", "2", "4">>}

FewPrefixTexts == {<<>>, Dec(24), Dec(33), Dec(129)}

Slash == <<"/">>

\* an address part, a '/', a prefix part
PlainTexts == {x[1] \o Slash \o x[2] : x \in AddrTexts \X (NumberTexts \cup OddPrefixTexts)}

\* up to three parts with or without a '/' between them
ShapedTexts ==
    {x[1] \o x[2] \o x[3] \o x[4] \o x[5] :
        x \in AddrTexts \X {<<>>, Slash} \X FewPrefixTexts \X {<<>>, Slash} \X FewPrefixTexts}

Texts == PlainTexts \cup ShapedTexts

\* one address part for each family: an address of the family, or a text
\* that is an address of neither
AddrOfEither ==
    {<<Ipv4Addr_fmt(<<127, 0, 0, 1>>), <<":", ":", "1">>>>,
     <<Ipv4Addr_fmt(<<0, 0, 0, 0>>), <<":", ":">>>>}
        \cup {<<j, j>> : j \in JunkTexts}

\* one prefix part for each family: the same number within the width of
\* both, numbers as far from the width of each (32 + d and 128 + d), or a
\* text that is no number
PrefixOfEither ==
    {<<Dec(n), Dec(n)>> : n \in 0..U32_BITS}
        \cup {<<Dec(U32_BITS + d), Dec(U128_BITS + d)>> : d \in (0 - U32_BITS)..(MaxPrefixText - U128_BITS)}
        \cup {<<o, o>> : o \in OddPrefixTexts}

\* a few of them, for the texts with several '/'
FewPrefixOfEither ==
    {<<Dec(24), Dec(24)>>, <<Dec(32), Dec(128)>>, <<Dec(33), Dec(129)>>, <<<<>>, <<>>>>}

\* the texts of one shape, one for IpAddrRangeV4 and one for IpAddrRangeV6:
\* an address part alone, address '/' prefix, and address '/' prefix '/'
\* prefix
TextsOfEither ==
    {<<a[1], a[2]>> : a \in AddrOfEither}
        \cup {<<x[1][1] \o Slash \o x[2][1], x[1][2] \o Slash \o x[2][2]>> :
                x \in AddrOfEither \X PrefixOfEither}
        \cup {<<x[1][1] \o Slash \o x[2][1] \o Slash \o x[3][1],
                 x[1][2] \o Slash \o x[2][2] \o Slash \o x[3][2]>> :
                x \in AddrOfEither \X FewPrefixOfEither \X FewPrefixOfEither}

\* the prefix lengths handed to new: every u8
Cidrs == 0..(U8_RANGE - 1)

\* pairs of integers of width w that agree on their top k bits, k in 0..w
BitPairs(w) ==
    {<<GenBits(w, x[1], x[2], x[3]), GenBits(w, x[1], x[2], x[4])>> :
        x \in (0..w) \X {0, MaxPeriod} \X TailShapes \X TailShapes}

\* the lengths of the common prefix of the address pairs that are converted
ConvertedPrefixes(w) == {0, 1, w - 1, w} \cup {8 * j : j \in 0..(w \div 8)}

\* pairs of addresses that are converted to integers
ConvertedV4 ==
    {<<<<127, 0, 0, 1>>, <<255, 255, 0, 0>>>>}
        \cup {<<GenV4(x[1], x[2], x[3]), GenV4(x[1], x[2], x[4])>> :
                 x \in ConvertedPrefixes(U32_BITS) \X {0, MaxPeriod} \X TailShapes \X {"zeros", "zeros_one"}}

ConvertedV6 ==
    {<<k[2], <<0, 0, 0, 0, 0, 0, 0, 1>>>> : k \in KnownV6}
        \cup {<<GenV6(x[1], x[2], x[3]), GenV6(x[1], x[2], x[4])>> :
                 x \in ConvertedPrefixes(U128_BITS) \X {0, MaxPeriod} \X TailShapes \X {"zeros", "zeros_one"}}

\* the arguments of a prefix mask and a postfix mask of width w: twice the
\* same u8, or the two parts of the width
MaskArgs(w) == {x \in Cidrs \X Cidrs : x[1] = x[2] \/ x[1] + x[2] = w}

----------------------------------------------------------------------------
(* The state machine: a caller makes one call at a time and drops the     *)
(* value it got before the next call                                       *)

NoArgs == <<>>

NoResult == Abort("no call")

Init ==
    /\ pc = "idle"
    /\ op = "none"
    /\ args = NoArgs
    /\ result = NoResult
    /\ calls = {}
    /\ split = <<>>

\* the call of operation o with arguments a has returned r
Returns(o, a, r, ran, cut) ==
    /\ pc' = "returned"
    /\ op' = o
    /\ args' = a
    /\ result' = r
    /\ calls' = ran
    /\ split' = cut

\* IpAddrRange::from_range(start, end) on two IPv4 addresses
CallFromRangeV4 ==
    /\ pc = "idle"
    /\ \E p \in PairsV4 :
        LET r == IpAddrRange_from_range(p[1], p[2])
        IN  Returns("from_range", p, r.result, r.calls, <<>>)

\* IpAddrRange::from_range(start, end) on two IPv6 addresses
CallFromRangeV6 ==
    /\ pc = "idle"
    /\ \E p \in PairsV6 :
        LET r == IpAddrRange_from_range(p[1], p[2])
        IN  Returns("from_range", p, r.result, r.calls, <<>>)

\* IpAddrRange::from_range(start, end) on addresses of different families
CallFromRangeMixed ==
    /\ pc = "idle"
    /\ \E p \in PairsMixed :
        LET r == IpAddrRange_from_range(p[1], p[2])
        IN  Returns("from_range", p, r.result, r.calls, <<>>)

\* IpAddrRangeV4::new(network_address, cidr)
CallNewV4 ==
    /\ pc = "idle"
    /\ \E a \in SomeV4, c \in Cidrs :
        Returns("V4::new", <<a, c>>, IpAddrRangeV4_new(a.ip, c), {}, <<>>)

\* IpAddrRangeV6::new(network_address, cidr)
CallNewV6 ==
    /\ pc = "idle"
    /\ \E a \in SomeV6, c \in Cidrs :
        Returns("V6::new", <<a, c>>, IpAddrRangeV6_new(a.ip, c), {}, <<>>)

\* IpAddrRangeV4::from_str(s)
CallFromStrV4 ==
    /\ pc = "idle"
    /\ \E s \in Texts :
        LET r == IpAddrRangeV4_from_str(s)
        IN  Returns("V4::from_str", <<s>>, r.result, r.calls, r.split)

\* IpAddrRangeV6::from_str(s)
CallFromStrV6 ==
    /\ pc = "idle"
    /\ \E s \in Texts :
        LET r == IpAddrRangeV6_from_str(s)
        IN  Returns("V6::from_str", <<s>>, r.result, r.calls, r.split)

\* IpAddrRange::from_range(start, end) of lib.rs
CallLibFromRange ==
    /\ pc = "idle"
    /\ \E p \in PairsV4 \cup PairsV6 \cup PairsMixed :
        LET r == lib_IpAddrRange_from_range(p[1], p[2])
        IN  Returns("lib::from_range", p, r.result, r.calls, <<>>)

\* IpAddrRangeV4::new(address, mask) of lib.rs
CallLibNewV4 ==
    /\ pc = "idle"
    /\ \E a \in SomeV4, c \in Cidrs :
        Returns("lib::V4::new", <<a, c>>, lib_IpAddrRangeV4_new(a.ip, c), {}, <<>>)

\* IpAddrRangeV6::new(address, mask) of lib.rs
CallLibNewV6 ==
    /\ pc = "idle"
    /\ \E a \in SomeV6, c \in Cidrs :
        Returns("lib::V6::new", <<a, c>>, lib_IpAddrRangeV6_new(a.ip, c), {}, <<>>)

\* IpAddrRangeV4::from_str(s) of lib.rs
CallLibFromStrV4 ==
    /\ pc = "idle"
    /\ \E s \in Texts :
        LET r == lib_IpAddrRangeV4_from_str(s)
        IN  Returns("lib::V4::from_str", <<s>>, r.result, r.calls, r.split)

\* range.to_string() of an IPv4 block, and IpAddrRangeV4::from_str of the
\* text; args holds the block and the text
CallDisplayParseV4 ==
    /\ pc = "idle"
    /\ \E a \in DisplayedV4, c \in 0..32 :
        LET range == [network_address |-> a, cidr |-> c]
            text == IpAddrRangeV4_fmt(range)
            r == IpAddrRangeV4_from_str(text)
        IN  Returns("V4::to_string_from_str", <<range, text>>, r.result, r.calls, r.split)

\* range.to_string() of an IPv6 block, and IpAddrRangeV6::from_str of the
\* text, with the standard library of either age
CallDisplayParseV6 ==
    /\ pc = "idle"
    /\ \E a \in DisplayedV6, c \in 0..128, compat \in BOOLEAN :
        LET range == [network_address |-> a, cidr |-> c]
            text == IpAddrRangeV6_fmt(range, compat)
            r == IpAddrRangeV6_from_str(text)
        IN  Returns("V6::to_string_from_str", <<range, text>>, r.result, r.calls, r.split)

\* IpAddrRangeV4::from_str and IpAddrRangeV6::from_str, each on the text of
\* its family; the value holds the two results
CallFromStrEither ==
    /\ pc = "idle"
    /\ \E t \in TextsOfEither :
        LET r4 == IpAddrRangeV4_from_str(t[1])
            r6 == IpAddrRangeV6_from_str(t[2])
        IN  Returns("from_str_either", t, Ok([v4 |-> r4.result, v6 |-> r6.result]),
                    r4.calls \cup r6.calls, r4.split \o r6.split)

\* the caller holds an IpAddrRange, the value from_range returned or the
\* block of new put in the variant of its family, and calls is_ipv4(),
\* is_ipv6() and to_string() on it; args holds the value, the family of the
\* addresses it was made from, and the age of the standard library
CallInspect ==
    /\ pc = "returned"
    /\ op \in {"from_range", "V4::new", "V6::new"}
    /\ result.kind = "Ok"
    /\ \E compat \in BOOLEAN :
        LET range == IF op = "from_range" THEN result.value
                     ELSE [variant |-> args[1].family, range |-> result.value]
        IN  Returns("inspect", <<range, args[1].family, compat>>,
                    Ok([is_ipv4 |-> is_ipv4(range),
                        is_ipv6 |-> is_ipv6(range),
                        text |-> IpAddrRange_fmt(range, compat)]),
                    {}, <<>>)

\* prefix_mask_u32(n) and postfix_mask_u32(m)
CallMasksU32 ==
    /\ pc = "idle"
    /\ \E x \in MaskArgs(32) :
        Returns("masks_u32", x,
                Ok([prefix |-> call_prefix_mask_u32(x[1]),
                    postfix |-> call_postfix_mask_u32(x[2])]),
                {}, <<>>)

\* prefix_mask_u128(n) and postfix_mask_u128(m)
CallMasksU128 ==
    /\ pc = "idle"
    /\ \E x \in MaskArgs(128) :
        Returns("masks_u128", x,
                Ok([prefix |-> call_prefix_mask_u128(x[1]),
                    postfix |-> call_postfix_mask_u128(x[2])]),
                {}, <<>>)

\* number_of_common_prefix_bits_u32(a, b) and (b, a)
CallCommonPrefixU32 ==
    /\ pc = "idle"
    /\ \E x \in BitPairs(U32_BITS) :
        Returns("common_prefix_u32", x,
                Ok([ab |-> number_of_common_prefix_bits_u32(x[1], x[2]),
                    ba |-> number_of_common_prefix_bits_u32(x[2], x[1])]),
                {}, <<>>)

\* number_of_common_prefix_bits_u128(a, b) and (b, a)
CallCommonPrefixU128 ==
    /\ pc = "idle"
    /\ \E x \in BitPairs(U128_BITS) :
        Returns("common_prefix_u128", x,
                Ok([ab |-> number_of_common_prefix_bits_u128(x[1], x[2]),
                    ba |-> number_of_common_prefix_bits_u128(x[2], x[1])]),
                {}, <<>>)

\* ipv4_to_u32 of two addresses; the integers are listed bit by bit
CallToU32 ==
    /\ pc = "idle"
    /\ \E x \in ConvertedV4 :
        Returns("ipv4_to_u32", <<IpAddrV4(x[1]), IpAddrV4(x[2])>>,
                Ok([a |-> {i \in Ones(U32_BITS) : i \in ipv4_to_u32(x[1])},
                    b |-> {i \in Ones(U32_BITS) : i \in ipv4_to_u32(x[2])}]),
                {}, <<>>)

\* ipv6_to_u128 of two addresses
CallToU128 ==
    /\ pc = "idle"
    /\ \E x \in ConvertedV6 :
        Returns("ipv6_to_u128", <<IpAddrV6(x[1]), IpAddrV6(x[2])>>,
                Ok([a |-> {i \in Ones(U128_BITS) : i \in ipv6_to_u128(x[1])},
                    b |-> {i \in Ones(U128_BITS) : i \in ipv6_to_u128(x[2])}]),
                {}, <<>>)

\* the caller is done with the value
Return ==
    /\ pc = "returned"
    /\ pc' = "idle"
    /\ op' = "none"
    /\ args' = NoArgs
    /\ result' = NoResult
    /\ calls' = {}
    /\ split' = <<>>

Next ==
    \/ CallFromRangeV4
    \/ CallFromRangeV6
    \/ CallFromRangeMixed
    \/ CallNewV4
    \/ CallNewV6
    \/ CallFromStrV4
    \/ CallFromStrV6
    \/ CallLibFromRange
    \/ CallLibNewV4
    \/ CallLibNewV6
    \/ CallLibFromStrV4
    \/ CallFromStrEither
    \/ CallDisplayParseV4
    \/ CallDisplayParseV6
    \/ CallInspect
    \/ CallMasksU32
    \/ CallMasksU128
    \/ CallCommonPrefixU32
    \/ CallCommonPrefixU128
    \/ CallToU32
    \/ CallToU128
    \/ Return

Spec == Init /\ [][Next]_vars

----------------------------------------------------------------------------
(* What the properties are stated in: the bits of an address read off its  *)
(* octets or segments, most significant group first                        *)

GroupBits(x) == IF x.family = "V4" THEN 8 ELSE 16

Width(x) == Len(x.ip) * GroupBits(x)

FamilyWidth(f) == IF f = "V4" THEN 32 ELSE 128

\* the indices of the one bits of address x
AddrOnes(x) ==
    {i \in 0..(Width(x) - 1) :
        (x.ip[Len(x.ip) - (i \div GroupBits(x))] \div Pow2(i % GroupBits(x))) % 2 = 1}

\* the low w - p bits
HostBits(w, p) == 0..(w - p - 1)

\* integers n and b of width w are the first and last address of the block n/p
IsBlockBits(n, b, w, p) ==
    /\ n \cap HostBits(w, p) = {}
    /\ b = n \cup HostBits(w, p)

\* addresses n and b are the first and last address of the block n/p
IsBlock(n, b, p) == IsBlockBits(AddrOnes(n), AddrOnes(b), Width(n), p)

\* the index of the first (most significant) bit where n and b differ
FirstDiff(n, b) == SetMax((n \ b) \cup (b \ n))

\* the number of leading bits the integers n and b of width w have in common
CommonLeading(n, b, w) == IF n = b THEN w ELSE w - 1 - FirstDiff(n, b)

\* n > b as integers
Greater(n, b) == n # b /\ FirstDiff(n, b) \in n

\* n has a one below the first differing bit, or b a zero at or below it
Misaligned(n, b) ==
    \/ \E i \in 0..(FirstDiff(n, b) - 1) : i \in n
    \/ \E i \in 0..FirstDiff(n, b) : i \notin b

\* a call of IpAddrRange::from_range with two addresses of one family returned
FromRangeSame ==
    /\ pc = "returned"
    /\ op = "from_range"
    /\ args[1].family = args[2].family

FromRangeMixed ==
    /\ pc = "returned"
    /\ op = "from_range"
    /\ args[1].family # args[2].family

BlockOf(x, p) == [variant |-> x.family, range |-> [network_address |-> x.ip, cidr |-> p]]

----------------------------------------------------------------------------
(* The properties *)

\* C1: from_range of the first and last address of an aligned block n/p, for
\* every p in 0..W, succeeds with exactly (n, p), and p is the number of
\* leading bits the two addresses have in common
C1_AlignedBlockDerived ==
    FromRangeSame =>
        LET n == AddrOnes(args[1])
            b == AddrOnes(args[2])
            w == Width(args[1])
        IN  \A p \in 0..w :
                IsBlockBits(n, b, w, p) =>
                    /\ result = Ok(BlockOf(args[1], p))
                    /\ p = CommonLeading(n, b, w)

\* C1 happens: an IPv4 /24 was derived from two different addresses
C1_Witness ==
    /\ FromRangeSame
    /\ args[1].family = "V4"
    /\ args[1] # args[2]
    /\ IsBlock(args[1], args[2], 24)
    /\ result.kind = "Ok"

\* C2: a block that from_range returns has all its host bits zero, and the
\* end address supplied is its address with all host bits one
C2_ReturnedBlockIsExact ==
    (FromRangeSame /\ result.kind = "Ok") =>
        /\ result.value.variant = args[1].family
        /\ result.value.range.cidr \in 0..Width(args[1])
        /\ IsBlock([family |-> result.value.variant, ip |-> result.value.range.network_address],
                   args[2], result.value.range.cidr)

\* C2 happens: an IPv6 block with network and host bits was returned
C2_Witness ==
    /\ FromRangeSame
    /\ result.kind = "Ok"
    /\ result.value.variant = "V6"
    /\ result.value.range.cidr = 64
    /\ AddrOnes(args[1]) # {}

\* C3: two different addresses of one family that are not the first and last
\* address of an aligned block, and so every pair with start above end, fail
\* with InvalidNetworkAddress
C3_MisalignedRejected ==
    (FromRangeSame /\ args[1] # args[2]) =>
        LET n == AddrOnes(args[1])
            b == AddrOnes(args[2])
        IN  (Misaligned(n, b) \/ Greater(n, b)) => result = Err("InvalidNetworkAddress")

\* C3 happens: a pair with start below end that is no block was rejected
C3_Witness ==
    /\ FromRangeSame
    /\ args[1] # args[2]
    /\ ~Greater(AddrOnes(args[1]), AddrOnes(args[2]))
    /\ Misaligned(AddrOnes(args[1]), AddrOnes(args[2]))
    /\ result = Err("InvalidNetworkAddress")

\* C4: from_range(a, a) succeeds with (a, W), W = 32 for IPv4 and 128 for
\* IPv6, whatever the bits of a
C4_SameAddressIsSingleHost ==
    (FromRangeSame /\ args[1] = args[2]) =>
        result = Ok(BlockOf(args[1], FamilyWidth(args[1].family)))

\* C4 happens: from_range(a, a) returned for an IPv4 address a with a low bit set
C4_Witness ==
    /\ FromRangeSame
    /\ args[1] = args[2]
    /\ args[1].family = "V4"
    /\ 0 \in AddrOnes(args[1])
    /\ result.kind = "Ok"

\* C5: from_range of an IPv4 and an IPv6 address, in either order, fails
\* with MixedIpVersions and runs the derivation of neither family
C5_MixedFamiliesRejected ==
    FromRangeMixed => (result = Err("MixedIpVersions") /\ calls = {})

\* C5 happens: a call with an IPv6 start and an IPv4 end returned
C5_Witness ==
    /\ FromRangeMixed
    /\ args[1].family = "V6"
    /\ args[2].family = "V4"
    /\ result.kind = "Err"

\* C6: from_range, in iprange.rs and in lib.rs, on two addresses of one
\* family never aborts: it returns a block or InvalidNetworkAddress
C6_FromRangeNeverAborts ==
    (pc = "returned" /\ op \in {"from_range", "lib::from_range"}
        /\ args[1].family = args[2].family) =>
        (result.kind = "Ok" \/ result = Err("InvalidNetworkAddress"))

\* the operations of lib.rs, whose blocks are (address, mask)
LibOps == {"lib::from_range", "lib::V4::new", "lib::V6::new", "lib::V4::from_str"}

\* the block inside an Ok result: of from_range, inside the variant
ResultBlock == IF op \in {"from_range", "lib::from_range"} THEN result.value.range ELSE result.value

\* the prefix length of the block of an Ok result
ResultPrefix == IF op \in LibOps THEN ResultBlock.mask ELSE ResultBlock.cidr

\* the family of the block of an Ok result
ResultFamily ==
    IF op \in {"from_range", "lib::from_range"} THEN result.value.variant
    ELSE IF op \in {"V4::new", "V4::from_str", "lib::V4::new", "lib::V4::from_str",
                    "V4::to_string_from_str"} THEN "V4"
    ELSE "V6"

\* the operations that return a block
BlockOps ==
    {"from_range", "V4::new", "V6::new", "V4::from_str", "V6::from_str",
     "V4::to_string_from_str", "V6::to_string_from_str"} \cup LibOps

\* C7: the block returned by new, by from_str or by from_range has a prefix
\* length in 0..W, W the width of its family
C7_PrefixWithinWidth ==
    (pc = "returned" /\ op \in BlockOps /\ result.kind = "Ok") =>
        ResultPrefix \in 0..FamilyWidth(ResultFamily)

\* C7 happens: the IPv6 parser returned a block with the largest prefix, 128
C7_Witness ==
    /\ pc = "returned"
    /\ op = "V6::from_str"
    /\ result.kind = "Ok"
    /\ result.value.cidr = 128

----------------------------------------------------------------------------
(* The shapes of a text *)

ParseReturned == pc = "returned" /\ op \in {"V4::from_str", "V6::from_str"}

ParseFamily == IF op = "V4::from_str" THEN "V4" ELSE "V6"

\* the texts that are an address of family f
ValidTexts(f) == IF f = "V4" THEN ValidV4Texts ELSE ValidV6Texts

\* the part of s before its last '/', and the part after it
BeforeLast(s) == SubSeq(s, 1, SetMax(Positions(s, "/")) - 1)

AfterLast(s) == SubSeq(s, SetMax(Positions(s, "/")) + 1, Len(s))

HasSlash(s) == Positions(s, "/") # {}

\* s is an address of family f, a '/', and the decimal text of some g > W
PrefixAbove(s, f) ==
    /\ Cardinality(Positions(s, "/")) = 1
    /\ BeforeLast(s) \in ValidTexts(f)
    /\ \E g \in (FamilyWidth(f) + 1)..MaxPrefixText : AfterLast(s) = Dec(g)

\* the g of such a text
PrefixWritten(s) == CHOOSE g \in 0..MaxPrefixText : AfterLast(s) = Dec(g)

\* the shapes of text that C8 lists
BadShape(s, f) ==
    \/ s = <<>>
    \/ s \in {a \o Slash : a \in ValidTexts(f)}
    \/ s \in {Slash \o n : n \in NumberTexts}
    \/ s \in ValidTexts(f)
    \/ s \in NumberTexts
    \/ Cardinality(Positions(s, "/")) > 1
    \/ /\ Cardinality(Positions(s, "/")) = 1
       /\ BeforeLast(s) \in AddrTexts \ ValidTexts(f)
       /\ AfterLast(s) \in NumberTexts
    \/ PrefixAbove(s, f)

\* C8: from_str of either family returns an error, never a block, for the
\* empty text, an address with a '/' and nothing after, a '/' and a prefix
\* with no address, an address with no '/', a bare number, a text with more
\* than one '/', an invalid address, and a prefix above W
C8_BadShapesRejected ==
    (ParseReturned /\ BadShape(args[1], ParseFamily)) => result.kind = "Err"

\* C8 happens: the IPv4 parser was given an address, '/', a prefix above 32
C8_Witness ==
    /\ ParseReturned
    /\ op = "V4::from_str"
    /\ PrefixAbove(args[1], "V4")
    /\ result.kind = "Err"

\* C9: from_str of an address, '/', and a decimal g > W fails with
\* InvalidCidr carrying g, in both families and for every g
C9_PrefixAboveWidthCarried ==
    (ParseReturned /\ PrefixAbove(args[1], ParseFamily)) =>
        result = ErrWith("InvalidCidr", PrefixWritten(args[1]))

\* the text has no '/', or nothing before or after its last '/'
Malformed(s) == ~HasSlash(s) \/ BeforeLast(s) = <<>> \/ AfterLast(s) = <<>>

\* C10: from_str cuts the text at its last '/', and fails with the
\* malformed-text error IpAddrRangeParseError exactly when there is no '/'
\* or nothing before or after the last one, before it parses any part
C10_SplitAtLastSlash ==
    ParseReturned =>
        /\ HasSlash(args[1]) => split = <<BeforeLast(args[1]), AfterLast(args[1])>>
        /\ (result = Err("IpAddrRangeParseError")) <=> Malformed(args[1])
        /\ Malformed(args[1]) => calls = {}

----------------------------------------------------------------------------
(* Parsing: aborts and the value returned *)

\* a call of from_str, of ipv4.rs, ipv6.rs or lib.rs, returned
AnyParseReturned ==
    pc = "returned" /\ op \in {"V4::from_str", "V6::from_str", "lib::V4::from_str"}

\* C11: from_str, in ipv4.rs, ipv6.rs and lib.rs, never aborts: for every
\* text it returns a block or an error value, and a prefix above W never
\* reaches the assertion of new
C11_ParseNeverAborts ==
    AnyParseReturned => result.kind \in {"Ok", "Err"}

\* the ways u8::from_str reads the number n: its decimal text, with a '+' or
\* a zero before it
WritingsOf(n) == {Dec(n), <<"+">> \o Dec(n), <<"0">> \o Dec(n)}

\* the text t writes the address ip of family f: every address text of the
\* generated inputs is in the form that Display gives its address
Writes(t, ip, f) ==
    IF f = "V4" THEN Len(ip) = 4 /\ t = Ipv4Addr_fmt(ip)
    ELSE Len(ip) = 8 /\ t = Ipv6Addr_fmt(ip, FALSE)

\* C12: a from_str that succeeds returns the address written before the
\* '/', every bit of it, and the prefix written after it; it clears no host
\* bit and rejects no address for its host bits: every address with every
\* prefix in 0..W parses to that address and that prefix
C12_ParsedVerbatim ==
    ParseReturned =>
        /\ result.kind = "Ok" =>
               /\ Writes(BeforeLast(args[1]), result.value.network_address, ParseFamily)
               /\ \E n \in 0..FamilyWidth(ParseFamily) :
                      AfterLast(args[1]) \in WritingsOf(n) /\ result.value.cidr = n
        /\ \A k \in Known(ParseFamily), n \in 0..FamilyWidth(ParseFamily) :
               args[1] = k[1] \o Slash \o Dec(n) =>
                   result = Ok([network_address |-> k[2], cidr |-> n])

\* C12 happens: "::1/24" was parsed to the address ::1, whose last bit is a
\* host bit of a /24, and the prefix 24
C12_Witness ==
    /\ ParseReturned
    /\ op = "V6::from_str"
    /\ args[1] = <<":", ":", "1", "/", "2", "4">>
    /\ result = Ok([network_address |-> <<0, 0, 0, 0, 0, 0, 0, 1>>, cidr |-> 24])

----------------------------------------------------------------------------
(* Display and from_str *)

DisplayParseReturned ==
    pc = "returned" /\ op \in {"V4::to_string_from_str", "V6::to_string_from_str"}

DisplayParseFamily == IF op = "V4::to_string_from_str" THEN "V4" ELSE "V6"

\* the display of block range of family f, with the standard library of
\* either age
Displays(range, f) ==
    IF f = "V4" THEN {IpAddrRangeV4_fmt(range)}
    ELSE {IpAddrRangeV6_fmt(range, compat) : compat \in BOOLEAN}

\* C13: the display of a block (address, p), p in 0..W, is the text of the
\* address, one '/', and p in decimal; from_str of it succeeds with the same
\* block, so that displaying the parsed block gives the same text again
C13_DisplayParseRoundTrip ==
    DisplayParseReturned =>
        /\ Cardinality(Positions(args[2], "/")) = 1
        /\ AfterLast(args[2]) = Dec(args[1].cidr)
        /\ \A k \in Known(DisplayParseFamily) :
               args[1].network_address = k[2] => BeforeLast(args[2]) = k[1]
        /\ result = Ok(args[1])
        /\ args[2] \in Displays(result.value, DisplayParseFamily)

\* C13 happens: an IPv6 block whose address has a run of zero segments in
\* the middle, displayed with "::", was parsed back
C13_Witness ==
    /\ DisplayParseReturned
    /\ op = "V6::to_string_from_str"
    /\ args[1].network_address[1] # 0
    /\ args[1].network_address[8] # 0
    /\ DoubleColon(args[2]) > 1
    /\ args[1].cidr = 127
    /\ result.kind = "Ok"

----------------------------------------------------------------------------
(* The constructor *)

NewReturned == pc = "returned" /\ op \in {"V4::new", "V6::new"}

\* C14: new(address, p) aborts when p > W, and for p <= W returns the
\* block of exactly that address and p, host bits and all: it validates no
\* boundary
C14_NewAssertsPrefixOnly ==
    NewReturned =>
        IF args[2] > FamilyWidth(args[1].family)
        THEN result.kind = "Abort"
        ELSE result = Ok([network_address |-> args[1].ip, cidr |-> args[2]])

\* C14 happens: new returned a /8 whose address has a host bit set
C14_Witness ==
    /\ NewReturned
    /\ op = "V4::new"
    /\ args[2] = 8
    /\ AddrOnes(args[1]) \cap HostBits(32, 8) # {}
    /\ result.kind = "Ok"

----------------------------------------------------------------------------
(* The variant of an IpAddrRange *)

InspectReturned == pc = "returned" /\ op = "inspect"

\* C15: of is_ipv4 and is_ipv6 exactly one is true of an IpAddrRange; the
\* value from_range returns for two IPv4 addresses is_ipv4, for two IPv6
\* addresses is_ipv6; and its to_string() is that of the block in it
C15_VariantOfFamily ==
    InspectReturned =>
        /\ result.value.is_ipv4 # result.value.is_ipv6
        /\ result.value.is_ipv4 <=> args[2] = "V4"
        /\ result.value.is_ipv6 <=> args[2] = "V6"
        /\ result.value.text =
               IF args[2] = "V4" THEN IpAddrRangeV4_fmt(args[1].range)
               ELSE IpAddrRangeV6_fmt(args[1].range, args[3])

\* C15 happens: an IpAddrRange that holds an IPv4 /24 was inspected
C15_Witness ==
    /\ InspectReturned
    /\ args[2] = "V4"
    /\ args[1].range.cidr = 24
    /\ result.value.is_ipv4

----------------------------------------------------------------------------
(* The masks *)

MasksReturned == pc = "returned" /\ op \in {"masks_u32", "masks_u128"}

MaskWidth == IF op = "masks_u32" THEN 32 ELSE 128

\* the integer 2^w - 2^(w - n): the top n bits of the width
TopBits(w, n) == {i \in 0..(w - 1) : i >= w - n}

\* the integer 2^n - 1: the low n bits
LowBits(n) == 0..(n - 1)

\* C16: for n in 0..W, prefix_mask(n) and postfix_mask(W - n) have every
\* bit of the width between them and no bit in common: each is the
\* complement of the other
C16_MasksPartitionWidth ==
    (MasksReturned /\ args[1] + args[2] = MaskWidth) =>
        /\ result.value.prefix.kind = "Ok"
        /\ result.value.postfix.kind = "Ok"
        /\ BitOr(result.value.prefix.value, result.value.postfix.value) = Ones(MaskWidth)
        /\ BitAnd(result.value.prefix.value, result.value.postfix.value) = Zero
        /\ BitNot(result.value.prefix.value, MaskWidth) = result.value.postfix.value

\* C16 happens: the u128 masks of a prefix of 64 bits and of the other 64
C16_Witness ==
    /\ MasksReturned
    /\ op = "masks_u128"
    /\ args = <<64, 64>>
    /\ 64 \in result.value.prefix.value
    /\ 63 \in result.value.postfix.value

\* the call returned the integer v
Returned(r, v) == r.kind = "Ok" /\ r.value = v

\* the call aborted on the assertion on its argument
Asserted(r) ==
    /\ r.kind = "Abort"
    /\ r.err \in {"assertion failed: leading_zeros <= 32",
                  "assertion failed: leading_zeros <= 128",
                  "assertion failed: trailing_zeros <= 32",
                  "assertion failed: trailing_zeros <= 128"}

\* C17: for n in 0..W, prefix_mask(n) is 2^W - 2^(W - n), the top n bits,
\* so 0 for n = 0 and all ones for n = W, and postfix_mask(n) is 2^n - 1;
\* no shift or subtraction of the computation overflows; for n > W both
\* functions abort on their assertion
C17_MaskValues ==
    MasksReturned =>
        /\ args[1] <= MaskWidth => Returned(result.value.prefix, TopBits(MaskWidth, args[1]))
        /\ args[1] = 0 => Returned(result.value.prefix, Zero)
        /\ args[1] = MaskWidth => Returned(result.value.prefix, Ones(MaskWidth))
        /\ args[2] <= MaskWidth => Returned(result.value.postfix, LowBits(args[2]))
        /\ args[1] > MaskWidth => Asserted(result.value.prefix)
        /\ args[2] > MaskWidth => Asserted(result.value.postfix)

\* C17 happens: the u128 masks were asked for 129 bits
C17_Witness ==
    /\ MasksReturned
    /\ op = "masks_u128"
    /\ args = <<129, 129>>
    /\ result.value.prefix.kind = "Abort"
    /\ result.value.postfix.kind = "Abort"

----------------------------------------------------------------------------
(* The bit functions *)

CommonPrefixReturned == pc = "returned" /\ op \in {"common_prefix_u32", "common_prefix_u128"}

CommonPrefixWidth == IF op = "common_prefix_u32" THEN 32 ELSE 128

\* C18: common_prefix_bits(a, b) is the number of leading zero bits of
\* a XOR b: the same for (b, a), in 0..W, W exactly when a = b, 0 for 0 and
\* all ones, and k < W exactly when a and b agree on their top k bits and
\* differ on the next; for W = 128 the cast to u8 loses nothing
C18_CommonPrefixBits ==
    CommonPrefixReturned =>
        LET a == args[1]
            b == args[2]
            w == CommonPrefixWidth
            r == result.value.ab
        IN  /\ r = result.value.ba
            /\ r \in 0..w
            /\ r = w <=> a = b
            /\ (a = Zero /\ b = Ones(w)) => r = 0
            /\ \A k \in 0..(w - 1) :
                   r = k <=> /\ \A i \in (w - k)..(w - 1) : i \in a <=> i \in b
                             /\ (w - 1 - k \in a) # (w - 1 - k \in b)
            /\ r = CommonLeading(a, b, w)

\* C18 happens: two equal integers of 128 bits, not zero, were compared
C18_Witness ==
    /\ CommonPrefixReturned
    /\ op = "common_prefix_u128"
    /\ args[1] = args[2]
    /\ args[1] # Zero
    /\ result.value.ab = 128

ToIntegerReturned == pc = "returned" /\ op \in {"ipv4_to_u32", "ipv6_to_u128"}

\* C19: the integer of an address has the bits of its first octet or
\* segment on top: bit i of the integer is bit i % 8 of octet 3 - i / 8 (bit
\* i % 16 of segment 7 - i / 16); two addresses are equal exactly when their
\* integers are; 127.0.0.1 is 0x7f000001 and 255.255.0.0 is 0xffff0000
C19_BigEndianInteger ==
    ToIntegerReturned =>
        /\ result.value.a = AddrOnes(args[1])
        /\ result.value.b = AddrOnes(args[2])
        /\ args[1] = args[2] <=> result.value.a = result.value.b
        /\ args[1] = IpAddrV4(<<127, 0, 0, 1>>) => result.value.a = {0} \cup (24..30)
        /\ args[2] = IpAddrV4(<<255, 255, 0, 0>>) => result.value.b = 16..31

\* C19 happens: 127.0.0.1 and 255.255.0.0 were converted
C19_Witness ==
    /\ ToIntegerReturned
    /\ args[1] = IpAddrV4(<<127, 0, 0, 1>>)
    /\ args[2] = IpAddrV4(<<255, 255, 0, 0>>)
    /\ result.kind = "Ok"

----------------------------------------------------------------------------
(* Adjacent addresses *)

\* the integer b is n + 1: the ones at the low end of n are zero in b, the
\* zero above them is one, the bits above that are those of n
Successor(n, b, w) ==
    \E t \in 0..(w - 1) :
        /\ \A i \in 0..(t - 1) : i \in n
        /\ t \notin n
        /\ b = (n \ (0..(t - 1))) \cup {t}

\* C20: from_range(x, x + 1) succeeds with prefix W - 1 for every even x and
\* fails with InvalidNetworkAddress for every odd x; from_range of two
\* different addresses never returns the prefix W
C20_AdjacentAddresses ==
    (FromRangeSame /\ args[1] # args[2]) =>
        LET n == AddrOnes(args[1])
            b == AddrOnes(args[2])
            w == Width(args[1])
        IN  /\ (Successor(n, b, w) /\ 0 \notin n) => result = Ok(BlockOf(args[1], w - 1))
            /\ (Successor(n, b, w) /\ 0 \in n) => result = Err("InvalidNetworkAddress")
            /\ result.kind = "Ok" => result.value.range.cidr < w

\* C20 happens: an odd IPv6 address and the address after it, which differ
\* in more than their last bit, were rejected
C20_Witness ==
    /\ FromRangeSame
    /\ args[1].family = "V6"
    /\ Successor(AddrOnes(args[1]), AddrOnes(args[2]), 128)
    /\ 0 \in AddrOnes(args[1])
    /\ 1 \in AddrOnes(args[1])
    /\ result = Err("InvalidNetworkAddress")

(* The two boundary checks *)

\* the network check of from_range passes: n has no host bit under the
\* prefix derived from n and b
NetworkCheckPasses(n, b, w) == n \cap HostBits(w, CommonLeading(n, b, w)) = {}

\* the broadcast check of from_range would pass: b is n with every host
\* bit under the derived prefix set
BroadcastCheckPasses(n, b, w) == b = n \cup HostBits(w, CommonLeading(n, b, w))

\* C21: neither boundary check of from_range subsumes the other: 10.0.0.0
\* and 10.0.0.2 pass the network check and fail the broadcast check,
\* 0.0.0.1 and 0.0.0.3 fail the network check although the end is the start
\* with the host bits set; every pair of different addresses that fails
\* exactly one of the checks is rejected with the same InvalidNetworkAddress
C21_ChecksIndependent ==
    (FromRangeSame /\ args[1] # args[2]) =>
        LET n == AddrOnes(args[1])
            b == AddrOnes(args[2])
            w == Width(args[1])
        IN  /\ args = <<IpAddrV4(<<10, 0, 0, 0>>), IpAddrV4(<<10, 0, 0, 2>>)>> =>
                    (NetworkCheckPasses(n, b, w) /\ ~BroadcastCheckPasses(n, b, w))
            /\ args = <<IpAddrV4(<<0, 0, 0, 1>>), IpAddrV4(<<0, 0, 0, 3>>)>> =>
                    (~NetworkCheckPasses(n, b, w) /\ BroadcastCheckPasses(n, b, w))
            /\ (NetworkCheckPasses(n, b, w) # BroadcastCheckPasses(n, b, w)) =>
                    result = Err("InvalidNetworkAddress")

\* C21 happens: 0.0.0.1 and 0.0.0.3, which fail the network check alone,
\* were rejected
C21_Witness ==
    /\ FromRangeSame
    /\ args = <<IpAddrV4(<<0, 0, 0, 1>>), IpAddrV4(<<0, 0, 0, 3>>)>>
    /\ ~NetworkCheckPasses(AddrOnes(args[1]), AddrOnes(args[2]), 32)
    /\ BroadcastCheckPasses(AddrOnes(args[1]), AddrOnes(args[2]), 32)
    /\ result = Err("InvalidNetworkAddress")

\* a pair that passes the network check and fails the broadcast check alone
\* was rejected: 10.0.0.0 and 10.0.0.2
C21_BroadcastAlone ==
    /\ FromRangeSame
    /\ args = <<IpAddrV4(<<10, 0, 0, 0>>), IpAddrV4(<<10, 0, 0, 2>>)>>
    /\ NetworkCheckPasses(AddrOnes(args[1]), AddrOnes(args[2]), 32)
    /\ ~BroadcastCheckPasses(AddrOnes(args[1]), AddrOnes(args[2]), 32)
    /\ result = Err("InvalidNetworkAddress")

(* The two parsers *)

EitherReturned == pc = "returned" /\ op = "from_str_either"

\* C22: on the two texts of one shape, one written for each family (33 for
\* IPv4 where 129 is written for IPv6), IpAddrRangeV4::from_str and
\* IpAddrRangeV6::from_str both succeed or both fail with the same kind of
\* error
C22_ParsersAgree ==
    EitherReturned =>
        /\ result.value.v4.kind = result.value.v6.kind
        /\ result.value.v4.err = result.value.v6.err

====
